---- MODULE Spec2Model ----
(***************************************************************************)
(* State-machine model of src/app/page.tsx (InvoicePage): the draft        *)
(* invoice, the saved invoice list, the settings, the list view's search   *)
(* term and status filter, and the handlers the page binds to UI events.   *)
(*                                                                         *)
(* Conventions                                                             *)
(*  - Strings that the code searches or formats (customerName,             *)
(*    invoiceNumber, searchTerm, the export file name) are sequences of    *)
(*    one-character strings, so toLowerCase, includes, String, padStart    *)
(*    and template concatenation are computed character by character.      *)
(*    Strings the code only stores, copies or tests for emptiness (notes,  *)
(*    description, company fields, ids) are TLA+ strings.                  *)
(*  - Math.random() and the clock (new Date(), Date.now()) are inputs:     *)
(*    a generated id is drawn from a set, the clock is the variable now    *)
(*    (a day ordinal) advanced by Tick.                                    *)
(*  - JavaScript numbers are modelled as exact decimals: quantity and      *)
(*    taxRate are integers, amounts are integers counting 1/10000 of the   *)
(*    currency unit (so that x * (taxRate / 100) is exact for whole-cent   *)
(*    rates).  IEEE-754 rounding is outside the model.                     *)
(*  - event records the handler that ran last and its arguments; toasts    *)
(*    and download hold what that handler emitted on the notification      *)
(*    channel (toast) and saved to a file (doc.save).                      *)
(*  - The caps on the saved list, the draft's items and the clock belong   *)
(*    to the specifications (the guards in their next-state relations),    *)
(*    not to the handlers.                                                 *)
(***************************************************************************)
EXTENDS Integers, Sequences, FiniteSets

VARIABLES invoices, settings, currentInvoice, searchTerm, filterStatus,
          event, toasts, download, now

vars == <<invoices, settings, currentInvoice, searchTerm, filterStatus,
          event, toasts, download, now>>

(***************************************************************************)
(* Bounds of the model.                                                    *)
(***************************************************************************)
MaxInvoices == 2
MaxItems == 1
MaxTicks == 1
MaxStoredItems == 4
MaxCalcItems == 2
MaxUpdateItems == 3

(***************************************************************************)
(* Program constants.                                                      *)
(***************************************************************************)
PadWidth == 3
DueDays == 30

(***************************************************************************)
(* Strings.                                                                *)
(***************************************************************************)
UpperChars == <<"A","B","C","D","E","F","G","H","I","J","K","L","M",
                "N","O","P","Q","R","S","T","U","V","W","X","Y","Z">>
LowerChars == <<"a","b","c","d","e","f","g","h","i","j","k","l","m",
                "n","o","p","q","r","s","t","u","v","w","x","y","z">>
DigitChars == <<"0","1","2","3","4","5","6","7","8","9">>

LowerChar(c) ==
  IF \E k \in 1..Len(UpperChars) : UpperChars[k] = c
  THEN LowerChars[CHOOSE k \in 1..Len(UpperChars) : UpperChars[k] = c]
  ELSE c

\* String.prototype.toLowerCase
ToLowerCase(s) == [i \in 1..Len(s) |-> LowerChar(s[i])]

\* String.prototype.includes
Includes(s, t) ==
  \E k \in 0..(Len(s) - Len(t)) : SubSeq(s, k + 1, k + Len(t)) = t

\* String(n) for a non-negative integer n
RECURSIVE NumberToString(_)
NumberToString(n) ==
  IF n < 10 THEN <<DigitChars[n + 1]>>
  ELSE NumberToString(n \div 10) \o <<DigitChars[(n % 10) + 1]>>

\* String.prototype.padStart with a one-character filler
PadStart(s, width, c) ==
  IF Len(s) >= width THEN s
  ELSE [i \in 1..(width - Len(s)) |-> c] \o s

(***************************************************************************)
(* The clock.  now counts days; day 0 is 31 December 2025, so the year     *)
(* rolls over on the first tick.  The calendar is the one of the years     *)
(* 2025 to 2027 (no leap day), and the page's time zone is taken to be     *)
(* UTC, so that getFullYear and toISOString read the same day.             *)
(***************************************************************************)
GetFullYear(day) == 2025 + ((day + 364) \div 365)

MonthLengths == <<31, 28, 31, 30, 31, 30, 31, 31, 30, 31, 30, 31>>

\* The day of the year, 1..365
DayOfYear(day) == ((day + 364) % 365) + 1

RECURSIVE DaysBeforeMonth(_)
DaysBeforeMonth(m) ==
  IF m = 1 THEN 0 ELSE DaysBeforeMonth(m - 1) + MonthLengths[m - 1]

GetMonth(day) ==
  CHOOSE m \in 1..12 :
    /\ DaysBeforeMonth(m) < DayOfYear(day)
    /\ DayOfYear(day) <= DaysBeforeMonth(m) + MonthLengths[m]

GetDate(day) == DayOfYear(day) - DaysBeforeMonth(GetMonth(day))

\* toISOString().split('T')[0]: yyyy-mm-dd
IsoDate(day) ==
  NumberToString(GetFullYear(day)) \o <<"-">>
    \o PadStart(NumberToString(GetMonth(day)), 2, "0") \o <<"-">>
    \o PadStart(NumberToString(GetDate(day)), 2, "0")

\* Mutant of InvoiceNumber: the sequence number is not used, every number
\* ends in 001.
InvoiceNumber_first(day, n) ==
  <<"I","N","V","-">> \o NumberToString(GetFullYear(day)) \o <<"-">>
    \o PadStart(NumberToString(1), PadWidth, "0")

\* Mutant of InvoiceNumber: the sequence is not padded.
InvoiceNumber_unpadded(day, n) ==
  <<"I","N","V","-">> \o NumberToString(GetFullYear(day)) \o <<"-">>
    \o NumberToString(n)

\* `INV-${year}-${String(n).padStart(3, '0')}`
InvoiceNumber(day, n) ==
  <<"I","N","V","-">> \o NumberToString(GetFullYear(day)) \o <<"-">>
    \o PadStart(NumberToString(n), PadWidth, "0")

\* The draft built by useState's initializer and again by saveInvoice;
\* n is the sequence number the caller computes from invoices.length.
NewDraft(day, n) ==
  [ id |-> "",
    invoiceNumber |-> InvoiceNumber(day, n),
    customerName |-> <<>>,
    date |-> IsoDate(day),
    dueDate |-> IsoDate(day + DueDays),
    items |-> <<>>,
    notes |-> "",
    status |-> "draft" ]

InitialSettings ==
  [ currency |-> "USD", taxRate |-> 0, companyName |-> "",
    companyAddress |-> "", companyEmail |-> "", companyPhone |-> "" ]

Statuses == {"draft", "sent", "paid", "overdue"}
Filters == Statuses \cup {"all"}

Init ==
  /\ invoices = <<>>
  /\ settings = InitialSettings
  /\ now = 0
  /\ currentInvoice = NewDraft(now, Len(invoices) + 1)
  /\ searchTerm = <<>>
  /\ filterStatus = "all"
  /\ event = [op |-> "load"]
  /\ toasts = <<>>
  /\ download = <<>>

(***************************************************************************)
(* Derived values.                                                         *)
(***************************************************************************)
RECURSIVE calculateSubtotal(_)
\* items.reduce((sum, item) => sum + item.quantity * item.rate, 0)
calculateSubtotal(items) ==
  IF items = <<>> THEN 0
  ELSE calculateSubtotal(SubSeq(items, 1, Len(items) - 1))
         + items[Len(items)].quantity * items[Len(items)].rate

\* Mutant of calculateTax: the rate is used as a factor, not as a percentage.
calculateTax_unscaled(subtotal) == subtotal * settings.taxRate

\* subtotal * (settings.taxRate / 100), exact on the model's decimals
calculateTax(subtotal) == (subtotal * settings.taxRate) \div 100

calculateTotal(items) ==
  LET subtotal == calculateSubtotal(items)
      tax == calculateTax(subtotal)
  IN  subtotal + tax

\* Mutant of MatchesSearch: the comparison is case-sensitive.
MatchesSearch_caseSensitive(invoice) ==
  \/ Includes(invoice.customerName, searchTerm)
  \/ Includes(invoice.invoiceNumber, searchTerm)

MatchesSearch(invoice) ==
  \/ Includes(ToLowerCase(invoice.customerName), ToLowerCase(searchTerm))
  \/ Includes(ToLowerCase(invoice.invoiceNumber), ToLowerCase(searchTerm))

MatchesStatus(invoice) ==
  IF filterStatus = "all" THEN TRUE ELSE invoice.status = filterStatus

filteredInvoices ==
  SelectSeq(SelectSeq(invoices, MatchesSearch), MatchesStatus)

(***************************************************************************)
(* Handlers.                                                               *)
(***************************************************************************)
Quiet == toasts' = <<>> /\ download' = <<>>

\* onChange of the customer name, date, due date and notes inputs
setCurrentInvoiceField(field, value) ==
  /\ currentInvoice' = [currentInvoice EXCEPT ![field] = value]
  /\ event' = [op |-> "setCurrentInvoice", field |-> field]
  /\ Quiet
  /\ UNCHANGED <<invoices, settings, searchTerm, filterStatus, now>>

\* onChange / onValueChange of the settings sheet's inputs
setSettingsField(field, value) ==
  /\ settings' = [settings EXCEPT ![field] = value]
  /\ event' = [op |-> "setSettings", field |-> field]
  /\ Quiet
  /\ UNCHANGED <<invoices, currentInvoice, searchTerm, filterStatus, now>>

addInvoiceItem(newId) ==
  /\ LET newItem == [id |-> newId, description |-> "", quantity |-> 1, rate |-> 0]
     IN  currentInvoice' =
           [currentInvoice EXCEPT !.items = Append(currentInvoice.items, newItem)]
  /\ event' = [op |-> "addInvoiceItem"]
  /\ Quiet
  /\ UNCHANGED <<invoices, settings, searchTerm, filterStatus, now>>

\* Mutant of WithoutItem: the filter's test is inverted.
WithoutItem_inverted(items, id) == SelectSeq(items, LAMBDA item : item.id = id)

\* items.filter(item => item.id !== id)
WithoutItem(items, id) == SelectSeq(items, LAMBDA item : item.id # id)

removeInvoiceItem(id) ==
  /\ currentInvoice' =
       [currentInvoice EXCEPT !.items = WithoutItem(currentInvoice.items, id)]
  /\ event' = [op |-> "removeInvoiceItem", id |-> id]
  /\ Quiet
  /\ UNCHANGED <<invoices, settings, searchTerm, filterStatus, now>>

\* Mutant of WithItemField: the id is not compared, every item is updated.
WithItemField_all(items, id, field, value) ==
  [k \in 1..Len(items) |-> [items[k] EXCEPT ![field] = value]]

\* items.map(item => item.id === id ? { ...item, [field]: value } : item)
WithItemField(items, id, field, value) ==
  [k \in 1..Len(items) |->
     IF items[k].id = id THEN [items[k] EXCEPT ![field] = value] ELSE items[k]]

updateInvoiceItem(id, field, value) ==
  /\ currentInvoice' =
       [currentInvoice EXCEPT
          !.items = WithItemField(currentInvoice.items, id, field, value)]
  /\ event' = [op |-> "updateInvoiceItem", id |-> id, field |-> field,
                value |-> value]
  /\ Quiet
  /\ UNCHANGED <<invoices, settings, searchTerm, filterStatus, now>>

\* Mutant of ItemsMissing: the check for an empty item list is left out.
ItemsMissing_unchecked == FALSE

\* The two validation checks at the head of saveInvoice
NameMissing == currentInvoice.customerName = <<>>
ItemsMissing == Len(currentInvoice.items) = 0

\* Mutant of NextSequence: the next draft is numbered as if the list had
\* already grown.
NextSequence_stale == Len(invoices) + 1

\* The sequence number saveInvoice gives the next draft: invoices.length + 2,
\* read from the list as it was before the append.
NextSequence == Len(invoices) + 2

\* Mutant of WithSaved: saving marks the invoice as sent.
WithSaved_sent(list, newInvoice) ==
  Append(list, [newInvoice EXCEPT !.status = "sent"])

\* Mutant of WithSaved: the new invoice is put first.
WithSaved_prepended(list, newInvoice) == <<newInvoice>> \o list

\* [...invoices, newInvoice]
WithSaved(list, newInvoice) == Append(list, newInvoice)

\* Mutant of saveInvoice: the validation branches notify and fall through
\* (the return statements are missing).
saveInvoice_fallthrough(newId) ==
  /\ event' = [op |-> "saveInvoice"]
  /\ download' = <<>>
  /\ toasts' = IF NameMissing THEN <<"Please enter a customer name">>
               ELSE IF ItemsMissing THEN <<"Please add at least one item">>
               ELSE <<"Invoice saved successfully">>
  /\ LET newInvoice == [currentInvoice EXCEPT !.id = newId]
     IN  invoices' = Append(invoices, newInvoice)
  /\ currentInvoice' = NewDraft(now, Len(invoices) + 2)
  /\ UNCHANGED <<settings, searchTerm, filterStatus, now>>

saveInvoice(newId) ==
  /\ event' = [op |-> "saveInvoice"]
  /\ download' = <<>>
  /\ IF NameMissing THEN
       /\ toasts' = <<"Please enter a customer name">>
       /\ UNCHANGED <<invoices, settings, currentInvoice, searchTerm, filterStatus, now>>
     ELSE IF ItemsMissing THEN
       /\ toasts' = <<"Please add at least one item">>
       /\ UNCHANGED <<invoices, settings, currentInvoice, searchTerm, filterStatus, now>>
     ELSE
       /\ LET newInvoice == [currentInvoice EXCEPT !.id = newId]
          IN  invoices' = WithSaved(invoices, newInvoice)
       /\ currentInvoice' = NewDraft(now, NextSequence)
       /\ toasts' = <<"Invoice saved successfully">>
       /\ UNCHANGED <<settings, searchTerm, filterStatus, now>>

setSearchTerm(value) ==
  /\ searchTerm' = value
  /\ event' = [op |-> "setSearchTerm"]
  /\ Quiet
  /\ UNCHANGED <<invoices, settings, currentInvoice, filterStatus, now>>

setFilterStatus(value) ==
  /\ filterStatus' = value
  /\ event' = [op |-> "setFilterStatus"]
  /\ Quiet
  /\ UNCHANGED <<invoices, settings, currentInvoice, searchTerm, now>>

\* One body row of the exported table
TableRow(item) ==
  <<item.description, item.quantity, item.rate, item.quantity * item.rate>>

\* Mutant of FileName: the file is named after the invoice's id.
FileName_byId(invoice) ==
  <<"i","n","v","o","i","c","e","-">> \o <<invoice.id>> \o <<".","p","d","f">>

\* `invoice-${invoice.invoiceNumber}.pdf`
FileName(invoice) ==
  <<"i","n","v","o","i","c","e","-">> \o invoice.invoiceNumber
    \o <<".","p","d","f">>

\* The document generatePDF lays out, and the name it is saved under
Document(invoice) ==
  LET subtotal == calculateSubtotal(invoice.items)
      tax == calculateTax(subtotal)
      total == subtotal + tax
  IN  [ filename |-> FileName(invoice),
        company |-> <<settings.companyName, settings.companyAddress,
                      settings.companyEmail, settings.companyPhone>>,
        invoiceNumber |-> invoice.invoiceNumber,
        date |-> invoice.date,
        dueDate |-> invoice.dueDate,
        billTo |-> invoice.customerName,
        currency |-> settings.currency,
        body |-> [k \in 1..Len(invoice.items) |-> TableRow(invoice.items[k])],
        foot |-> <<subtotal, settings.taxRate, tax, total>>,
        notes |-> IF invoice.notes # "" THEN <<invoice.notes>> ELSE <<>> ]

\* onClick of the "Download PDF" button of the k-th listed invoice
generatePDF(k) ==
  /\ k \in 1..Len(filteredInvoices)
  /\ download' = <<Document(filteredInvoices[k])>>
  /\ event' = [op |-> "generatePDF", invoice |-> filteredInvoices[k]]
  /\ toasts' = <<>>
  /\ UNCHANGED <<invoices, settings, currentInvoice, searchTerm, filterStatus, now>>

\* A day passes while the page is open
Tick ==
  /\ now' = now + 1
  /\ event' = [op |-> "tick"]
  /\ Quiet
  /\ UNCHANGED <<invoices, settings, currentInvoice, searchTerm, filterStatus>>

(***************************************************************************)
(* Caps shared by the specifications' next-state relations.                *)
(***************************************************************************)
RoomForItem(cap) == Len(currentInvoice.items) < cap
RoomForSave(cap) == (~NameMissing /\ ~ItemsMissing) => Len(invoices) < cap

(***************************************************************************)
(* Spec: the ledger.  Draft edits, item add / remove / update, a settings  *)
(* edit and save attempts, over the smallest input domains.                *)
(***************************************************************************)
Name_Al == <<"A","l">>

Next ==
  \/ \E v \in {<<>>, Name_Al} : setCurrentInvoiceField("customerName", v)
  \/ \E v \in {"", "net 30"} : setCurrentInvoiceField("notes", v)
  \/ \E v \in {"", "Acme"} : setSettingsField("companyName", v)
  \/ RoomForItem(MaxItems) /\ \E id \in {"a"} : addInvoiceItem(id)
  \/ \E id \in {"a"} : removeInvoiceItem(id)
  \/ \E id \in {"a"} : updateInvoiceItem(id, "quantity", 2)
  \/ RoomForSave(MaxInvoices) /\ \E id \in {"i"} : saveInvoice(id)

Spec == Init /\ [][Next]_vars

(***************************************************************************)
(* SpecClock: the ledger while days pass (the year rolls over on the       *)
(* first tick): naming the customer, adding an item, saving, the clock.    *)
(***************************************************************************)
NextClock ==
  \/ \E v \in {<<>>, Name_Al} : setCurrentInvoiceField("customerName", v)
  \/ \E v \in {IsoDate(0)} : setCurrentInvoiceField("date", v)
  \/ RoomForItem(MaxItems) /\ \E id \in {"a"} : addInvoiceItem(id)
  \/ \E id \in {"a"} : removeInvoiceItem(id)
  \/ RoomForSave(MaxInvoices) /\ \E id \in {"i"} : saveInvoice(id)
  \/ now < MaxTicks /\ Tick

SpecClock == Init /\ [][NextClock]_vars

(***************************************************************************)
(* SpecItems: the draft's item list.  Generated ids are drawn from three   *)
(* values, so that Math.random() repeating a value is one of the cases;    *)
(* remove is invoked with any of the three, whether or not the draft       *)
(* holds an item with that id.                                             *)
(***************************************************************************)
ItemIds == {"a", "b", "c"}

\* The items the page holds: the draft's and the saved invoices'.  Every
\* save needs an item, so capping them caps the saved list too.
RECURSIVE SavedItems(_)
SavedItems(list) ==
  IF list = <<>> THEN 0
  ELSE Len(list[Len(list)].items) + SavedItems(SubSeq(list, 1, Len(list) - 1))

StoredItems == Len(currentInvoice.items) + SavedItems(invoices)

NextItems ==
  \/ \E v \in {Name_Al} : setCurrentInvoiceField("customerName", v)
  \/ \E v \in {10} : setSettingsField("taxRate", v)
  \/ StoredItems < MaxStoredItems /\ \E id \in ItemIds : addInvoiceItem(id)
  \/ \E id \in ItemIds : removeInvoiceItem(id)
  \/ \E id \in {"a"} : updateInvoiceItem(id, "quantity", 2)
  \/ \E id \in {"i"} : saveInvoice(id)

SpecItems == Init /\ [][NextItems]_vars

(***************************************************************************)
(* SpecList: the list view.  Invoices are saved under two customer names   *)
(* and the search term and status filter are set; filteredInvoices is      *)
(* what the page lists in each state.                                      *)
(***************************************************************************)
Name_Bo == <<"B","o">>
SearchTerms ==
  { <<>>, <<"a">>, <<"b","O">>, <<"i","n","v","-">>, <<"0","0","2">>,
    <<"l","b">> }

NextList ==
  \/ \E v \in {Name_Al, Name_Bo} : setCurrentInvoiceField("customerName", v)
  \/ RoomForItem(MaxItems) /\ \E id \in {"a"} : addInvoiceItem(id)
  \/ RoomForSave(MaxInvoices) /\ \E id \in {"i"} : saveInvoice(id)
  \/ \E v \in SearchTerms : setSearchTerm(v)
  \/ \E v \in Filters : setFilterStatus(v)

SpecList == Init /\ [][NextList]_vars

(***************************************************************************)
(* SpecExport: exporting.  Invoices are saved with and without notes, the  *)
(* company name is set or left empty, the list is narrowed by a search     *)
(* term, and any listed invoice is exported.                               *)
(***************************************************************************)
NextExport ==
  \/ \E v \in {Name_Al} : setCurrentInvoiceField("customerName", v)
  \/ \E v \in {"net 30"} : setCurrentInvoiceField("notes", v)
  \/ \E v \in {"", "Acme"} : setSettingsField("companyName", v)
  \/ RoomForItem(MaxItems) /\ \E id \in {"a"} : addInvoiceItem(id)
  \/ RoomForSave(MaxInvoices) /\ \E id \in {"i"} : saveInvoice(id)
  \/ \E v \in {<<>>, <<"0","0","2">>} : setSearchTerm(v)
  \/ \E k \in 1..MaxInvoices : generatePDF(k)

SpecExport == Init /\ [][NextExport]_vars

(***************************************************************************)
(* SpecCalc: the derived totals.  Items are added, removed and given       *)
(* quantities and rates, and the tax rate is set; the page shows           *)
(* calculateSubtotal, calculateTax and calculateTotal of the draft's items *)
(* in each state.                                                          *)
(***************************************************************************)
\* An amount of c cents, in the model's unit of 1/10000
Cents(c) == c * 100

NextCalc ==
  \/ RoomForItem(MaxCalcItems) /\ \E id \in {"a", "b"} : addInvoiceItem(id)
  \/ \E id \in {"a", "b"} : removeInvoiceItem(id)
  \/ \E id \in {"a", "b"}, v \in {0, 2} : updateInvoiceItem(id, "quantity", v)
  \/ \E id \in {"a", "b"}, v \in {Cents(500), Cents(1000)} :
       updateInvoiceItem(id, "rate", v)
  \/ \E v \in {0, 7, 10} : setSettingsField("taxRate", v)

SpecCalc == Init /\ [][NextCalc]_vars

(***************************************************************************)
(* SpecUpdate: editing items.  Items with ids "a" and "b" are added; the   *)
(* description, quantity and rate inputs are changed for id "a" and for    *)
(* id "c", which no item has; drafts are named and saved.                  *)
(***************************************************************************)
NextUpdate ==
  \/ \E v \in {Name_Al} : setCurrentInvoiceField("customerName", v)
  \/ StoredItems < MaxUpdateItems /\ \E id \in {"a", "b"} : addInvoiceItem(id)
  \/ \E id \in {"a", "c"} : updateInvoiceItem(id, "description", "x")
  \/ \E id \in {"a", "c"} : updateInvoiceItem(id, "quantity", 2)
  \/ \E id \in {"a", "c"} : updateInvoiceItem(id, "rate", Cents(500))
  \/ \E id \in {"i"} : saveInvoice(id)

SpecUpdate == Init /\ [][NextUpdate]_vars

(***************************************************************************)
(* Reading an invoice number back: INV-<year>-<sequence>.                  *)
(***************************************************************************)
IsDigit(c) == \E k \in 1..Len(DigitChars) : DigitChars[k] = c
DigitValue(c) == (CHOOSE k \in 1..Len(DigitChars) : DigitChars[k] = c) - 1

RECURSIVE DecimalValue(_)
DecimalValue(s) ==
  IF s = <<>> THEN 0
  ELSE 10 * DecimalValue(SubSeq(s, 1, Len(s) - 1)) + DigitValue(s[Len(s)])

AllDigits(s) == s # <<>> /\ \A k \in 1..Len(s) : IsDigit(s[k])

Dashes(s) == {k \in 1..Len(s) : s[k] = "-"}
LastDash(s) == CHOOSE k \in Dashes(s) : \A j \in Dashes(s) : j <= k
YearPart(s) == SubSeq(s, 5, LastDash(s) - 1)
SequencePart(s) == SubSeq(s, LastDash(s) + 1, Len(s))

\* INV-<digits>-<digits>, the sequence written with three digits, or with
\* more and no leading zero
WellFormedNumber(s) ==
  /\ Cardinality(Dashes(s)) = 2
  /\ SubSeq(s, 1, 4) = <<"I","N","V","-">>
  /\ AllDigits(YearPart(s))
  /\ AllDigits(SequencePart(s))
  /\ Len(SequencePart(s)) >= 3
  /\ Len(SequencePart(s)) > 3 => SequencePart(s)[1] # "0"

SequenceOf(s) == DecimalValue(SequencePart(s))
YearOf(s) == DecimalValue(YearPart(s))

IsPrefix(s, t) == Len(s) <= Len(t) /\ SubSeq(t, 1, Len(s)) = s

InvoiceFields == {"invoiceNumber", "customerName", "date", "dueDate",
                  "items", "notes", "status"}

SaveValid == ~NameMissing /\ ~ItemsMissing

(***************************************************************************)
(* C1.  A save attempt on a draft with a customer name and at least one    *)
(* item appends exactly one invoice to the end of the saved list, equal    *)
(* to the draft in every field but the id; the draft becomes a fresh one   *)
(* (no customer name, no items, no notes, status draft) whose number       *)
(* carries the sequence (saved count before the save) + 2; the only        *)
(* notification is "Invoice saved successfully".                           *)
(***************************************************************************)
C1_SaveAppendsAndResets ==
  [][ (event'.op = "saveInvoice" /\ SaveValid) =>
        /\ Len(invoices') = Len(invoices) + 1
        /\ IsPrefix(invoices, invoices')
        /\ \A f \in InvoiceFields :
             invoices'[Len(invoices')][f] = currentInvoice[f]
        /\ currentInvoice'.customerName = <<>>
        /\ currentInvoice'.items = <<>>
        /\ currentInvoice'.notes = ""
        /\ currentInvoice'.status = "draft"
        /\ WellFormedNumber(currentInvoice'.invoiceNumber)
        /\ SequenceOf(currentInvoice'.invoiceNumber) = Len(invoices) + 2
        /\ toasts' = <<"Invoice saved successfully">> ]_vars

\* The second save succeeded, of a draft that carried notes and an edited item.
C1_Witness ==
  /\ event.op = "saveInvoice"
  /\ toasts = <<"Invoice saved successfully">>
  /\ Len(invoices) = 2
  /\ invoices[2].notes # ""
  /\ invoices[2].items[1].quantity = 2
  /\ SequenceOf(currentInvoice.invoiceNumber) = 3

(***************************************************************************)
(* C2.  A save attempt on a draft that fails validation changes neither    *)
(* the saved list nor the draft (nor the settings or the list view) and    *)
(* emits exactly one notice: "Please enter a customer name" when the       *)
(* customer name is empty, "Please add at least one item" when it is not   *)
(* and there are no items; never the success notification.                 *)
(***************************************************************************)
C2_InvalidSaveOnlyNotifies ==
  [][ (event'.op = "saveInvoice" /\ ~SaveValid) =>
        /\ invoices' = invoices
        /\ currentInvoice' = currentInvoice
        /\ settings' = settings
        /\ searchTerm' = searchTerm
        /\ filterStatus' = filterStatus
        /\ Len(toasts') = 1
        /\ currentInvoice.customerName = <<>> =>
             toasts'[1] = "Please enter a customer name"
        /\ (currentInvoice.customerName # <<>> /\ currentInvoice.items = <<>>) =>
             toasts'[1] = "Please add at least one item"
        /\ toasts'[1] # "Invoice saved successfully" ]_vars

\* A named draft without items was refused, with an invoice already saved.
C2_Witness ==
  /\ event.op = "saveInvoice"
  /\ toasts = <<"Please add at least one item">>
  /\ currentInvoice.customerName # <<>>
  /\ currentInvoice.items = <<>>
  /\ Len(invoices) >= 1

(***************************************************************************)
(* C3.  Every saved invoice has a non-empty customer name and at least     *)
(* one item.                                                               *)
(***************************************************************************)
C3_SavedInvoicesValid ==
  \A k \in 1..Len(invoices) :
    /\ invoices[k].customerName # <<>>
    /\ Len(invoices[k].items) >= 1

\* Invoices are saved, and a later save of an unnamed, itemless draft was refused.
C3_Witness ==
  /\ Len(invoices) >= 2
  /\ event.op = "saveInvoice"
  /\ toasts = <<"Please enter a customer name">>
  /\ currentInvoice.items = <<>>

(***************************************************************************)
(* C4.  The saved list is append-only: in every step the list before the   *)
(* step is a prefix of the list after it.                                  *)
(***************************************************************************)
C4_SavedListAppendOnly == [][IsPrefix(invoices, invoices')]_vars

\* After a save, the next draft's item "a" was edited; the saved invoice's
\* item "a" still has the quantity it was saved with.
C4_Witness ==
  /\ Len(invoices) >= 2
  /\ event.op = "updateInvoiceItem"
  /\ Len(currentInvoice.items) = 1
  /\ currentInvoice.items[1].quantity = 2
  /\ invoices[1].items[1].id = currentInvoice.items[1].id
  /\ invoices[1].items[1].quantity = 1

(***************************************************************************)
(* C5.  As claimed: in every reachable state the draft's number is         *)
(* INV-<current year>-<sequence>, the sequence three digits, zero padded,  *)
(* equal to (saved count) + 1.                                             *)
(***************************************************************************)
C5_NumberHasCurrentYear ==
  /\ WellFormedNumber(currentInvoice.invoiceNumber)
  /\ Len(SequencePart(currentInvoice.invoiceNumber)) = 3
  /\ SequenceOf(currentInvoice.invoiceNumber) = Len(invoices) + 1
  /\ YearOf(currentInvoice.invoiceNumber) = GetFullYear(now)

C5_Form ==
  /\ WellFormedNumber(currentInvoice.invoiceNumber)
  /\ SequenceOf(currentInvoice.invoiceNumber) = Len(invoices) + 1

C5_YearStep ==
  IF event'.op = "saveInvoice" /\ SaveValid
  THEN YearOf(currentInvoice'.invoiceNumber) = GetFullYear(now')
  ELSE YearOf(currentInvoice'.invoiceNumber) = YearOf(currentInvoice.invoiceNumber)

(***************************************************************************)
(* C5, amended.  In every reachable state the draft's number is            *)
(* INV-<year>-<sequence>: the sequence is (saved count) + 1 in decimal,    *)
(* zero padded to three digits; the year is the one that was current when  *)
(* the draft was initialized (at page load, then at each successful        *)
(* save), and no later step changes it.                                    *)
(***************************************************************************)
C5_NumberHasYearOfInitialization ==
  /\ YearOf(currentInvoice.invoiceNumber) = GetFullYear(now)
  /\ []C5_Form
  /\ [][C5_YearStep]_vars

\* The year rolled over after the draft was initialized by a save.
C5_Witness ==
  /\ Len(invoices) >= 1
  /\ event.op = "tick"
  /\ YearOf(currentInvoice.invoiceNumber) < GetFullYear(now)
  /\ SequenceOf(currentInvoice.invoiceNumber) = Len(invoices) + 1

(***************************************************************************)
(* C6.  Item ids are unique within their invoice: no two items of the      *)
(* draft, and no two items of any one saved invoice, share an id.          *)
(***************************************************************************)
UniqueIds(items) ==
  \A j, k \in 1..Len(items) : items[j].id = items[k].id => j = k

C6_ItemIdsUnique ==
  /\ UniqueIds(currentInvoice.items)
  /\ \A n \in 1..Len(invoices) : UniqueIds(invoices[n].items)

(***************************************************************************)
(* C10.  removeInvoiceItem(id) drops from the draft the items whose id is  *)
(* id and keeps every other item, unchanged and in the same relative       *)
(* order; when no item has that id the draft is unchanged; the draft's     *)
(* other fields, the saved list and the settings are unchanged and         *)
(* nothing is notified.                                                    *)
(***************************************************************************)
KeptPositions(items, id) == {k \in 1..Len(items) : items[k].id # id}
NthKept(items, id, j) ==
  CHOOSE k \in KeptPositions(items, id) :
    Cardinality({m \in KeptPositions(items, id) : m <= k}) = j

C10_RemoveItem ==
  [][ event'.op = "removeInvoiceItem" =>
        LET id == event'.id
            old == currentInvoice.items
            new == currentInvoice'.items
        IN  /\ Len(new) = Cardinality(KeptPositions(old, id))
            /\ \A j \in 1..Len(new) : new[j] = old[NthKept(old, id, j)]
            /\ (\A k \in 1..Len(old) : old[k].id # id) =>
                 currentInvoice' = currentInvoice
            /\ \A f \in (InvoiceFields \ {"items"}) \cup {"id"} :
                 currentInvoice'[f] = currentInvoice[f]
            /\ invoices' = invoices
            /\ settings' = settings
            /\ toasts' = <<>> ]_vars

\* Item "b" was removed from between two others, which kept their order and
\* their content (item "a" with its edited quantity), with an invoice saved.
C10_Witness ==
  /\ event = [op |-> "removeInvoiceItem", id |-> "b"]
  /\ Len(currentInvoice.items) = 2
  /\ currentInvoice.items[1] = [id |-> "a", description |-> "", quantity |-> 2, rate |-> 0]
  /\ currentInvoice.items[2].id = "c"
  /\ Len(invoices) = 1
  /\ invoices[1].items[1].id = "b"

(***************************************************************************)
(* C7.  filteredInvoices is exactly the subsequence of the saved list, in  *)
(* saved order, of the invoices whose customer name or invoice number      *)
(* contains the search term as a substring, letter case ignored, and       *)
(* whose status equals the filter; with the filter "all" every status      *)
(* passes, so the result is the search-only result.                        *)
(***************************************************************************)
SameLetter(c, d) ==
  \/ c = d
  \/ \E n \in 1..Len(UpperChars) :
       {c, d} = {UpperChars[n], LowerChars[n]}

ContainsIgnoringCase(s, t) ==
  \E k \in 0..(Len(s) - Len(t)) :
    \A i \in 1..Len(t) : SameLetter(s[k + i], t[i])

SearchHits ==
  {k \in 1..Len(invoices) :
     \/ ContainsIgnoringCase(invoices[k].customerName, searchTerm)
     \/ ContainsIgnoringCase(invoices[k].invoiceNumber, searchTerm)}

Hits ==
  {k \in SearchHits : filterStatus = "all" \/ invoices[k].status = filterStatus}

NthOf(S, j) == CHOOSE k \in S : Cardinality({m \in S : m <= k}) = j

C7_FilteredIsMatchingSubsequence ==
  /\ Len(filteredInvoices) = Cardinality(Hits)
  /\ \A j \in 1..Len(filteredInvoices) :
       filteredInvoices[j] = invoices[NthOf(Hits, j)]
  /\ filterStatus = "all" => Hits = SearchHits

\* Of two saved invoices, "Al" and "Bo", the term "bO" under the filter
\* "draft" lists the second only.
C7_Witness ==
  /\ Len(invoices) = 2
  /\ invoices[1].customerName = Name_Al
  /\ invoices[2].customerName = Name_Bo
  /\ searchTerm = <<"b","O">>
  /\ filterStatus = "draft"
  /\ filteredInvoices = <<invoices[2]>>

(***************************************************************************)
(* C9.  Exporting a listed invoice changes neither the saved list (the     *)
(* exported invoice included), nor the settings, nor the draft, and        *)
(* writes one document, named invoice-<invoiceNumber>.pdf, whose company   *)
(* lines are the settings' company fields, empty or not.                   *)
(***************************************************************************)
C9_ExportOnlyWritesFile ==
  [][ event'.op = "generatePDF" =>
        /\ invoices' = invoices
        /\ settings' = settings
        /\ currentInvoice' = currentInvoice
        /\ \E k \in 1..Len(invoices') : invoices'[k] = event'.invoice
        /\ Len(download') = 1
        /\ download'[1].filename =
             <<"i","n","v","o","i","c","e","-">> \o event'.invoice.invoiceNumber
               \o <<".","p","d","f">>
        /\ download'[1].company =
             <<settings.companyName, settings.companyAddress,
               settings.companyEmail, settings.companyPhone>>
        /\ toasts' = <<>> ]_vars

\* The second saved invoice was exported while every company field was empty.
C9_Witness ==
  /\ event.op = "generatePDF"
  /\ Len(invoices) = 2
  /\ event.invoice = invoices[2]
  /\ Len(download) = 1
  /\ download[1].company = <<"", "", "", "">>
  /\ download[1].filename =
       <<"i","n","v","o","i","c","e","-","I","N","V","-","2","0","2","5","-",
         "0","0","2",".","p","d","f">>

(***************************************************************************)
(* C8.  For the draft's items and the tax rate of every reachable state:   *)
(* the subtotal is the sum of quantity x rate over the items (0 for no     *)
(* items), the tax is subtotal x taxRate / 100, the total is subtotal +    *)
(* tax, and equals the subtotal when the tax rate is 0; items (2, 10.00)   *)
(* and (1, 5.00) at tax rate 10 give 25.00, 2.50 and 27.50.                *)
(***************************************************************************)
RECURSIVE LineSum(_)
LineSum(items) ==
  IF items = <<>> THEN 0
  ELSE Head(items).quantity * Head(items).rate + LineSum(Tail(items))

ExampleItems(items) ==
  /\ Len(items) = 2
  /\ items[1].quantity = 2 /\ items[1].rate = Cents(1000)
  /\ items[2].quantity = 1 /\ items[2].rate = Cents(500)

C8_Totals ==
  LET items == currentInvoice.items
      subtotal == calculateSubtotal(items)
      tax == calculateTax(subtotal)
      total == calculateTotal(items)
  IN  /\ subtotal = LineSum(items)
      /\ items = <<>> => subtotal = 0
      /\ 100 * tax = subtotal * settings.taxRate
      /\ total = subtotal + tax
      /\ settings.taxRate = 0 => total = subtotal
      /\ (ExampleItems(items) /\ settings.taxRate = 10) =>
           /\ subtotal = Cents(2500)
           /\ tax = Cents(250)
           /\ total = Cents(2750)

\* The example: items (2, 10.00) and (1, 5.00) at a tax rate of 10.
C8_Witness ==
  /\ ExampleItems(currentInvoice.items)
  /\ settings.taxRate = 10
  /\ calculateTotal(currentInvoice.items) = Cents(2750)

(***************************************************************************)
(* C11.  updateInvoiceItem(id, field, value) sets the named field          *)
(* (description, quantity or rate) of the draft items whose id is id to    *)
(* value and changes nothing else: those items' other fields, every other  *)
(* item, the number and order of items, the draft's other fields and the   *)
(* saved list are unchanged; when no item has that id the draft is         *)
(* unchanged.                                                              *)
(***************************************************************************)
ItemFields == {"id", "description", "quantity", "rate"}

C11_UpdateItem ==
  [][ event'.op = "updateInvoiceItem" =>
        LET id == event'.id
            field == event'.field
            old == currentInvoice.items
            new == currentInvoice'.items
        IN  /\ field \in {"description", "quantity", "rate"}
            /\ Len(new) = Len(old)
            /\ \A k \in 1..Len(old) :
                 IF old[k].id = id
                 THEN /\ new[k][field] = event'.value
                      /\ \A g \in ItemFields \ {field} : new[k][g] = old[k][g]
                 ELSE new[k] = old[k]
            /\ (\A k \in 1..Len(old) : old[k].id # id) =>
                 currentInvoice' = currentInvoice
            /\ \A f \in (InvoiceFields \ {"items"}) \cup {"id"} :
                 currentInvoice'[f] = currentInvoice[f]
            /\ invoices' = invoices
            /\ toasts' = <<>> ]_vars

\* The description of item "a" was set; item "b" before it is as it was
\* added, item "a" keeps its edited quantity, and the saved invoice's item
\* "a" is as it was saved.
C11_Witness ==
  /\ event = [op |-> "updateInvoiceItem", id |-> "a", field |-> "description",
              value |-> "x"]
  /\ Len(currentInvoice.items) = 2
  /\ currentInvoice.items[1] = [id |-> "b", description |-> "", quantity |-> 1, rate |-> 0]
  /\ currentInvoice.items[2] = [id |-> "a", description |-> "x", quantity |-> 2, rate |-> 0]
  /\ Len(invoices) = 1
  /\ invoices[1].items = <<[id |-> "a", description |-> "", quantity |-> 1, rate |-> 0]>>

(***************************************************************************)
(* C12.  In every reachable state the k-th invoice of the saved list       *)
(* (counting from 1) carries a well-formed invoice number whose sequence   *)
(* is k; no two saved invoices share an invoice number, and no saved       *)
(* invoice shares its number with the current draft.                       *)
(***************************************************************************)
C12_SequenceIsPosition ==
  /\ \A k \in 1..Len(invoices) :
       /\ WellFormedNumber(invoices[k].invoiceNumber)
       /\ SequenceOf(invoices[k].invoiceNumber) = k
  /\ \A j, k \in 1..Len(invoices) :
       j # k => invoices[j].invoiceNumber # invoices[k].invoiceNumber
  /\ \A k \in 1..Len(invoices) :
       invoices[k].invoiceNumber # currentInvoice.invoiceNumber

\* Two invoices were saved and the draft was renumbered, all three in the
\* same calendar year.
C12_Witness ==
  /\ event.op = "saveInvoice"
  /\ toasts = <<"Invoice saved successfully">>
  /\ Len(invoices) = 2
  /\ YearOf(invoices[1].invoiceNumber) = YearOf(invoices[2].invoiceNumber)
  /\ YearOf(invoices[2].invoiceNumber) = YearOf(currentInvoice.invoiceNumber)

(***************************************************************************)
(* C13.  No operation changes an invoice's status: in every reachable      *)
(* state the draft and every saved invoice have status "draft".  So with   *)
(* the status filter "sent", "paid" or "overdue" the filtered list is      *)
(* empty whatever the search term is, and with the filter "draft" it is    *)
(* the list the filter "all" gives for the same search term, which is the  *)
(* list of the saved invoices that match the search.                       *)
(***************************************************************************)
C13_StatusAlwaysDraft ==
  /\ currentInvoice.status = "draft"
  /\ \A k \in 1..Len(invoices) : invoices[k].status = "draft"
  /\ filterStatus \in {"sent", "paid", "overdue"} => filteredInvoices = <<>>
  /\ filterStatus \in {"draft", "all"} =>
       /\ Len(filteredInvoices) = Cardinality(SearchHits)
       /\ \A j \in 1..Len(filteredInvoices) :
            filteredInvoices[j] = invoices[NthOf(SearchHits, j)]

\* Two invoices are saved, the search box is empty and the status filter
\* was set to "paid": the filter "all" would list both, this one lists none.
C13_Witness ==
  /\ event.op = "setFilterStatus"
  /\ filterStatus = "paid"
  /\ searchTerm = <<>>
  /\ Len(invoices) = 2
  /\ filteredInvoices = <<>>

====
